---- MODULE Spec2Model ----
(***************************************************************************)
(* Model of the segmented downloader of Flash-Get (src/downloader.py):     *)
(* DownloadThread (the coordinator), ChunkDownloader (the range workers),  *)
(* DownloadTracker (the progress aggregator), the part files and the       *)
(* destination file on disk, and the signals the coordinator emits.        *)
(*                                                                         *)
(* File contents are sequences of blocks [chunk, off, len]: the bytes      *)
(* off .. off+len-1 of the body of the response worker `chunk` received    *)
(* (chunk = -1: bytes that were on disk before the transfer).              *)
(* requests' iter_content hands the body over in blocks of at most 64 KiB; *)
(* a step of a worker here takes a run of such blocks (a "piece") during   *)
(* which the worker saw no change of its flags, MaxPieces pieces a body.   *)
(***************************************************************************)
EXTENDS Integers, Sequences, FiniteSets, TLC

\* ------------------------------------------------------------------ bounds
MaxPieces == 2        \* pieces a response body is delivered in
PlanMaxConn == 18     \* requested connection counts of the segment plans
PlanMaxMiB == 18      \* largest total size of the segment plans, in MiB
MaxDownloads == 2     \* downloads added to one DownloadManager

\* ------------------------------------------------------- program constants
MAX_CONNECTIONS == 16
MIN_CHUNK == 1024 * 1024

Min(a, b) == IF a < b THEN a ELSE b
Max(a, b) == IF a > b THEN a ELSE b

VARIABLES
    requested,          \* num_connections as passed to DownloadThread()
    content_length,     \* the server's content-length header (0: absent or zero)
    accept_ranges,      \* the server answers accept-ranges: bytes
    dest0,              \* the destination file before the transfer
    pc,                 \* where DownloadThread.run is
    num_connections,    \* self.num_connections
    is_paused,          \* self.is_paused
    is_cancelled,       \* self.is_cancelled
    chunk_downloaders,  \* self.chunk_downloaders, by chunk_id
    chunk_queue,        \* chunk_queue: <<chunk_id, success, message>>
    chunks_completed,   \* run's local chunks_completed
    chunks_failed,      \* run's local chunks_failed
    download_tracker,   \* the DownloadTracker
    part_files,         \* <temp_path>.part<i> on disk, by i
    dest,               \* full_path on disk
    status_log,         \* signals.status emitted by run, in order
    control_status,     \* the status pause() or resume() emitted last
    progress,           \* signals.progress: the last event emitted
    completed_count,    \* signals.completed emitted so far
    arrival,            \* chunk ids in the order run took them off the queue
    merge_src,          \* the part files as the merge step found them
    cancel_at,          \* the moment cancel() was first called (CancelMoment)
    download_counter,   \* DownloadManager.download_counter
    download_items,     \* DownloadManager.download_items, by download number
    disk,               \* the files of the manager's downloads, by path
    lock,               \* DownloadTracker.lock: <<>>, or the thread holding it
    calls,              \* update_chunk_progress: where each worker is in it
    reader              \* run reading the tracker for a progress event

vars == <<requested, content_length, accept_ranges, dest0, pc, num_connections,
          is_paused, is_cancelled, chunk_downloaders, chunk_queue,
          chunks_completed, chunks_failed, download_tracker, part_files, dest,
          status_log, control_status, progress, completed_count, arrival,
          merge_src, cancel_at, download_counter, download_items, disk, lock,
          calls, reader>>

\* the downloads of a DownloadManager and their files
manager == <<download_counter, download_items, disk>>

\* the tracker's lock and the threads inside update_chunk_progress or
\* inside run's "with download_tracker.lock", statement by statement
locking == <<lock, calls, reader>>

inputs == <<requested, content_length, accept_ranges, dest0>>

\* ------------------------------------------------------------------- files
NoFile == [exists |-> FALSE, open |-> FALSE, data |-> <<>>]
OldFile(size) == [exists |-> TRUE, open |-> FALSE,
                  data |-> <<[chunk |-> -1, off |-> 0, len |-> size]>>]

RECURSIVE DataLen(_)
DataLen(data) ==
    IF data = <<>> THEN 0 ELSE Head(data).len + DataLen(Tail(data))

\* os.path.getsize
GetSize(file) == DataLen(file.data)

\* ------------------------------------------------------------ segment plan
\* CapConnections without the cap (C30 depends on it)
CapConnections_Uncapped(n) == n

\* DownloadThread.__init__: min(num_connections, MAX_CONNECTIONS)
CapConnections(n) == Min(n, MAX_CONNECTIONS)

\* FallbackConnections with the fallback forgotten (C9 depends on it)
FallbackConnections_Keep(n, ranges) == n

\* run: "if not supports_range: self.num_connections = 1"
FallbackConnections(n, ranges) == IF ~ranges THEN 1 ELSE n

\* ReducedConnections with the reduced count rounded up (C26 depends on the
\* floor division)
ReducedConnections_Ceil(total, n) ==
    IF total \div n < MIN_CHUNK
    THEN Max(1, (total + MIN_CHUNK - 1) \div MIN_CHUNK)
    ELSE n

\* ReducedConnections with the 1 MiB floor forgotten (C8 depends on it)
ReducedConnections_Keep(total, n) == n

\* run: "if chunk_size < 1024 * 1024: num_connections = max(1, total_size // (1024 * 1024))"
ReducedConnections(total, n) ==
    IF total \div n < MIN_CHUNK THEN Max(1, total \div MIN_CHUNK) ELSE n

\* ChunkSize rounded up instead of down (C25 depends on the floor)
ChunkSize_Ceil(total, n) == (total + n - 1) \div n

\* run: chunk_size = total_size // self.num_connections
ChunkSize(total, n) == total \div n

\* run: start_byte = i * chunk_size
StartByte(i, cs) == i * cs

\* EndByte with the last chunk cut like the others (C1 depends on it)
EndByte_NoRemainder(i, n, total, cs) == i * cs + cs - 1

\* run: end_byte = total_size - 1 if i == num_connections - 1 else start_byte + chunk_size - 1
EndByte(i, n, total, cs) ==
    IF i = n - 1 THEN total - 1 ELSE StartByte(i, cs) + cs - 1

\* ChunkDownloader.__init__
NewChunkDownloader(start, end) ==
    [start_byte |-> start, end_byte |-> end, is_paused |-> FALSE,
     is_cancelled |-> FALSE, at |-> "get", rejected |-> FALSE, body |-> 0,
     pieces |-> 0, downloaded |-> 0, bytes_since_last |-> 0]

\* ------------------------------------------------------- DownloadTracker
None == -1

RECURSIVE SumUpTo(_, _)
SumUpTo(f, k) == IF k < 0 THEN 0 ELSE f[k] + SumUpTo(f, k - 1)

\* sum(list)
Sum(f) == SumUpTo(f, Cardinality(DOMAIN f) - 1)

\* DownloadTracker.__init__
NewTracker(total, n) ==
    [total_size |-> total,
     chunks_progress |-> [i \in 0 .. n - 1 |-> 0],
     chunks_speeds |-> [i \in 0 .. n - 1 |-> 0],
     total_downloaded |-> 0, current_speed |-> 0]

\* update_chunk_progress without the absolute branch: the final report adds
\* its bytes_downloaded like any other (C14 depends on the absolute value)
UpdateChunkProgress_NoFinal(t, chunk_id, bytes_downloaded, speed, total_chunk_size) ==
    LET prog == [t.chunks_progress EXCEPT ![chunk_id] = @ + bytes_downloaded]
        spd == [t.chunks_speeds EXCEPT ![chunk_id] = speed]
    IN [t EXCEPT !.chunks_progress = prog, !.chunks_speeds = spd,
                 !.total_downloaded = Sum(prog), !.current_speed = Sum(spd)]

\* DownloadTracker.update_chunk_progress, the whole of it under self.lock
UpdateChunkProgress(t, chunk_id, bytes_downloaded, speed, total_chunk_size) ==
    LET prog == IF total_chunk_size # None
                THEN [t.chunks_progress EXCEPT ![chunk_id] = total_chunk_size]
                ELSE [t.chunks_progress EXCEPT ![chunk_id] = @ + bytes_downloaded]
        spd == IF total_chunk_size # None
               THEN t.chunks_speeds
               ELSE [t.chunks_speeds EXCEPT ![chunk_id] = speed]
    IN [t EXCEPT !.chunks_progress = prog, !.chunks_speeds = spd,
                 !.total_downloaded = Sum(prog), !.current_speed = Sum(spd)]

\* ------------------------------------------------------ cleanup and merge
\* range(n), as a sequence
Range(n) == [k \in 1 .. n |-> k - 1]

\* os.remove of a file: the name goes; a worker that holds it open keeps its handle
Removed(file) == [exists |-> FALSE, open |-> file.open, data |-> <<>>]

\* CleanupTempFiles over range(n - 1) (C3 depends on it)
CleanupTempFiles_OffByOne(files, n, locked) ==
    [i \in DOMAIN files |->
        IF i \in 0 .. n - 2 /\ files[i].exists /\ i \notin locked
        THEN Removed(files[i]) ELSE files[i]]

\* DownloadThread._cleanup_temp_files; os.remove raises for the files in
\* `locked` (a file another thread holds open, where the platform forbids
\* that), and the bare except swallows it
CleanupTempFiles(files, n, locked) ==
    [i \in DOMAIN files |->
        IF i \in 0 .. n - 1 /\ files[i].exists /\ i \notin locked
        THEN Removed(files[i]) ELSE files[i]]

\* MergeOrder in the order the chunks were reported done (C5 depends on it)
MergeOrder_Arrival(n) == arrival

\* the order _merge_chunks visits the part files in: for i in range(num_chunks)
MergeOrder(n) == Range(n)

\* the loop of _merge_chunks over `order`: a part file that exists is appended
\* to the output and removed
RECURSIVE MergeLoop(_, _, _)
MergeLoop(order, files, out) ==
    IF order = <<>> THEN [files |-> files, out |-> out]
    ELSE LET i == Head(order) IN
         IF files[i].exists
         THEN MergeLoop(Tail(order), [files EXCEPT ![i] = Removed(@)],
                        out \o files[i].data)
         ELSE MergeLoop(Tail(order), files, out)

\* DownloadThread._merge_chunks, stopped by an OSError at part `stop` of the
\* order (stop = num_chunks: no error)
MergeChunks(files, num_chunks, stop) ==
    MergeLoop(SubSeq(MergeOrder(num_chunks), 1, stop), files, <<>>)

\* --------------------------------------------------------------- signals
TerminalStatus ==
    {"Completed", "File already downloaded", "Download failed", "Cancelled",
     "Error: Could not determine file size", "Error: request failed"}

\* the terminal statuses emitted so far
Terminals == SelectSeq(status_log, LAMBDA m : m \in TerminalStatus)

Outcome ==
    IF Terminals = <<>> THEN "none"
    ELSE LET m == Terminals[Len(Terminals)] IN
         IF m \in {"Completed", "File already downloaded"} THEN "Completed"
         ELSE IF m = "Cancelled" THEN "Cancelled" ELSE "Failed"

\* int((total_downloaded / total_size) * 100)
Percent(downloaded, total) == (downloaded * 100) \div total

\* threading.Lock(): free; no thread in a call, nothing read by run
NoneLocked ==
    /\ lock = <<>>
    /\ calls = <<>>
    /\ reader = [at |-> "out", total |-> 0, speed |-> 0]

\* ------------------------------------------- the manager and its downloads
\* the URLs entered, as <<host, last segment of the path>>, and the save
\* locations selected
Urls == {<<"a", "f.bin">>, <<"b", "f.bin">>, <<"a", "">>}
Dirs == {"d1", "d2"}

\* run, line 145: os.path.basename(urlparse(self.url).path) or 'download'
FileName(url) == IF url[2] = "" THEN "download" ELSE url[2]

\* run, line 146: os.path.join(self.save_path, file_name)
FullPath(url, save_path) == <<save_path, FileName(url)>>

\* run, line 147: full_path + ".download"
TempPath(url, save_path) == FullPath(url, save_path) \o <<".download">>

\* f"{temp_path}.part{chunk_id}"
PartPath(temp_path, chunk_id) == temp_path \o <<".part", chunk_id>>

\* the paths the downloads use: of the part files, the one of chunk 0, which
\* every plan has
Paths ==
    {FullPath(u, d) : u \in Urls, d \in Dirs}
      \cup {PartPath(TempPath(u, d), 0) : u \in Urls, d \in Dirs}

\* a path with no file; writers: the downloads whose worker holds the file
\* open for writing
Absent == [exists |-> FALSE, writers |-> {}]

\* DownloadItem.start_download: the DownloadThread, started; of its workers
\* the one of chunk 0 is followed
NewDownload(url, save_path) ==
    [url |-> url, save_path |-> save_path, pc |-> "run",
     is_cancelled |-> FALSE, worker |-> "none"]

\* DownloadManager.__init__, and a disk without any of the files
NoDownloads ==
    /\ download_counter = 0
    /\ download_items = <<>>
    /\ disk = [p \in Paths |-> Absent]

\* ------------------------------------------------------------------ inputs
\* the transfers: one or two connections requested; a total size that is
\* unknown, below the 1 MiB floor, or enough for two chunks; no file at the
\* destination, or one of the largest size
TransferConns == {1, 2}
TransferSizes == {0, 500000, 2 * MIN_CHUNK + 1}
TransferFiles == {NoFile, OldFile(2 * MIN_CHUNK + 1)}

\* total sizes of the segment plans: around every multiple of 1 MiB
PlanSizes ==
    {m * MIN_CHUNK + d : m \in 0 .. PlanMaxMiB,
                         d \in {0, 1, 7, 500000, MIN_CHUNK - 1}} \ {0}

InitWith(conns, sizes, files) ==
    /\ requested \in conns
    /\ content_length \in sizes
    /\ accept_ranges \in BOOLEAN
    /\ dest0 \in files
    /\ pc = "probe"
    /\ num_connections = CapConnections(requested)
    /\ is_paused = FALSE
    /\ is_cancelled = FALSE
    /\ chunk_downloaders = <<>>
    /\ chunk_queue = <<>>
    /\ chunks_completed = 0
    /\ chunks_failed = <<>>
    /\ download_tracker = NewTracker(0, 0)
    /\ part_files = [i \in 0 .. CapConnections(requested) - 1 |-> NoFile]
    /\ dest = dest0
    /\ status_log = <<>>
    /\ control_status = ""
    /\ progress = [sent |-> FALSE, percent |-> 0, bytes |-> 0]
    /\ completed_count = 0
    /\ arrival = <<>>
    /\ merge_src = <<>>
    /\ cancel_at = "none"
    /\ NoDownloads
    /\ NoneLocked

Init == InitWith(TransferConns, TransferSizes, TransferFiles)

InitPlan == InitWith(1 .. PlanMaxConn, PlanSizes, {NoFile})

\* ------------------------------------------------------- the coordinator
Emit(log, msgs) == log \o msgs

\* EmitCompleted with the emit left out (C17 depends on it)
EmitCompleted_Dropped(count) == count

\* run, lines 169 and 262: signals.completed.emit(download_id)
EmitCompleted(count) == count + 1

\* the part files some worker holds open
OpenParts == {i \in DOMAIN part_files : part_files[i].open}

\* SizeUnknown with the test left out (C20 depends on it)
SizeUnknown_Never(total_size) == FALSE

\* run, line 160: "if total_size == 0", total_size being
\* int(response.headers.get('content-length', 0))
SizeUnknown(total_size) == total_size = 0

\* AlreadyDownloaded with the test left out (C19 depends on it)
AlreadyDownloaded_Never(file, total_size) == FALSE

\* run, line 165: os.path.exists(full_path) and
\* os.path.getsize(full_path) == total_size
AlreadyDownloaded(file, total_size) ==
    file.exists /\ GetSize(file) = total_size

\* run, lines 150-170 and 264-269: the probe, the size check, the
\* already-downloaded short cut; requests.head may raise
Probe ==
    /\ pc = "probe"
    /\ \/ /\ status_log' = Emit(status_log,
                <<"Checking file info...",
                  IF is_cancelled THEN "Cancelled" ELSE "Error: request failed">>)
          /\ part_files' = CleanupTempFiles(part_files, num_connections, {})
          /\ pc' = "done"
          /\ UNCHANGED <<progress, completed_count>>
       \/ /\ SizeUnknown(content_length)
          /\ status_log' = Emit(status_log,
                <<"Checking file info...", "Error: Could not determine file size">>)
          /\ pc' = "done"
          /\ UNCHANGED <<part_files, progress, completed_count>>
       \/ /\ ~SizeUnknown(content_length)
          /\ AlreadyDownloaded(dest, content_length)
          /\ status_log' = Emit(status_log,
                <<"Checking file info...", "File already downloaded">>)
          /\ progress' = [sent |-> TRUE, percent |-> 100, bytes |-> content_length]
          /\ completed_count' = EmitCompleted(completed_count)
          /\ pc' = "done"
          /\ UNCHANGED part_files
       \/ /\ ~SizeUnknown(content_length)
          /\ ~AlreadyDownloaded(dest, content_length)
          /\ status_log' = Emit(status_log, <<"Checking file info...">>)
          /\ pc' = "plan"
          /\ UNCHANGED <<part_files, progress, completed_count>>
    /\ UNCHANGED <<inputs, manager, locking, control_status,
                   num_connections, is_paused, is_cancelled,
                   chunk_downloaders, chunk_queue, chunks_completed,
                   chunks_failed, download_tracker, dest, arrival, merge_src,
                   cancel_at>>

\* run, lines 172-189: the effective connection count and the tracker
Plan ==
    /\ pc = "plan"
    /\ LET n == ReducedConnections(content_length,
                    FallbackConnections(num_connections, accept_ranges))
       IN /\ num_connections' = n
          /\ download_tracker' = NewTracker(content_length, n)
          /\ status_log' = Emit(status_log,
                (IF ~accept_ranges THEN <<"using single connection">> ELSE <<>>)
                \o <<"Starting download">>)
    /\ pc' = "spawn"
    /\ UNCHANGED <<inputs, manager, locking, control_status,
                   is_paused, is_cancelled, chunk_downloaders,
                   chunk_queue, chunks_completed, chunks_failed, part_files,
                   dest, progress, completed_count, arrival, merge_src,
                   cancel_at>>

\* run, lines 191-207: one ChunkDownloader per chunk, started
Spawn ==
    /\ pc = "spawn"
    /\ LET cs == ChunkSize(content_length, num_connections)
       IN chunk_downloaders' =
            [i \in 0 .. num_connections - 1 |->
                NewChunkDownloader(StartByte(i, cs),
                    EndByte(i, num_connections, content_length, cs))]
    /\ pc' = "loop"
    /\ UNCHANGED <<inputs, manager, locking, control_status,
                   num_connections, is_paused, is_cancelled,
                   chunk_queue, chunks_completed, chunks_failed,
                   download_tracker, part_files, dest, status_log, progress,
                   completed_count, arrival, merge_src, cancel_at>>

\* Outstanding counting one outcome too many (C22 depends on the count)
Outstanding_OffByOne ==
    chunks_completed + Len(chunks_failed) < num_connections - 1

\* the while condition of the monitoring loop, line 209
Outstanding == chunks_completed + Len(chunks_failed) < num_connections

\* CancelSeen reading the pause flag (C4 depends on it)
CancelSeen_Paused == is_paused

\* run, line 210: "if self.is_cancelled"
CancelSeen == is_cancelled

\* CancelBranch that leaves the workers' is_cancelled alone (C24 depends on
\* the flag handed to every worker)
CancelBranch_NoTell(locked) ==
    /\ status_log' = Emit(status_log, <<"Cancelled">>)
    /\ part_files' = CleanupTempFiles(part_files, num_connections, locked)
    /\ pc' = "done"
    /\ UNCHANGED <<chunk_downloaders, dest>>

\* CancelBranch without its return: the turn of the loop goes on (C18
\* depends on the return)
CancelBranch_NoReturn(locked) ==
    /\ chunk_downloaders' =
        [i \in DOMAIN chunk_downloaders |->
            [chunk_downloaders[i] EXCEPT !.is_cancelled = TRUE]]
    /\ status_log' = Emit(status_log, <<"Cancelled">>)
    /\ part_files' = CleanupTempFiles(part_files, num_connections, locked)
    /\ pc' = "get"
    /\ UNCHANGED dest

\* run, lines 210-215: cancel seen at the top of the loop
CancelBranch(locked) ==
    /\ chunk_downloaders' =
        [i \in DOMAIN chunk_downloaders |->
            [chunk_downloaders[i] EXCEPT !.is_cancelled = TRUE]]
    /\ status_log' = Emit(status_log, <<"Cancelled">>)
    /\ part_files' = CleanupTempFiles(part_files, num_connections, locked)
    /\ pc' = "done"
    /\ UNCHANGED dest

\* run, lines 217-219: the pause flag handed to every worker
PropagatePause ==
    /\ chunk_downloaders' =
        [i \in DOMAIN chunk_downloaders |->
            [chunk_downloaders[i] EXCEPT !.is_paused = is_paused]]
    /\ pc' = "get"
    /\ UNCHANGED <<status_log, part_files, dest>>

\* FailBranch that merges what there is before it gives up (C10 depends on it)
FailBranch_PartialMerge ==
    LET r == MergeChunks(part_files, num_connections, num_connections) IN
    /\ status_log' = Emit(status_log, <<"Download failed">>)
    /\ dest' = [exists |-> TRUE, open |-> FALSE, data |-> r.out]
    /\ part_files' = r.files
    /\ pc' = "done"
    /\ UNCHANGED chunk_downloaders

\* run, lines 243-248: some chunk failed
FailBranch ==
    /\ status_log' = Emit(status_log, <<"Download failed">>)
    /\ part_files' = CleanupTempFiles(part_files, num_connections, {})
    /\ pc' = "done"
    /\ UNCHANGED <<chunk_downloaders, dest>>

\* run, lines 250-251: every chunk succeeded
MergeBranch ==
    /\ status_log' = Emit(status_log, <<"Merging downloaded chunks...">>)
    /\ pc' = "merge"
    /\ UNCHANGED <<chunk_downloaders, part_files, dest>>

\* run, lines 209-219 and 243-251: the top of one turn of the monitoring
\* loop, or the loop's exit
LoopCheck ==
    /\ pc = "loop"
    /\ IF Outstanding
       THEN IF CancelSeen
            THEN \E locked \in SUBSET OpenParts : CancelBranch(locked)
            ELSE PropagatePause
       ELSE IF chunks_failed # <<>> THEN FailBranch ELSE MergeBranch
    /\ UNCHANGED <<inputs, manager, locking, control_status,
                   num_connections, is_paused, is_cancelled,
                   chunk_queue, chunks_completed, chunks_failed,
                   download_tracker, progress, completed_count, arrival,
                   merge_src, cancel_at>>

\* run, lines 233-241: the progress event, read under the tracker's lock
ProgressEvent(t) ==
    [sent |-> TRUE, percent |-> Percent(t.total_downloaded, content_length),
     bytes |-> t.total_downloaded]

\* run, lines 221-241: chunk_queue.get(timeout=0.5), then the progress event
\* when 0.5 s have passed since the last one (they have when get timed out)
LoopGet ==
    /\ pc = "get"
    /\ \/ /\ chunk_queue # <<>>
          /\ LET m == Head(chunk_queue) IN
             /\ chunk_queue' = Tail(chunk_queue)
             /\ arrival' = Append(arrival, m[1])
             /\ IF m[2]
                THEN /\ chunks_completed' = chunks_completed + 1
                     /\ UNCHANGED <<chunks_failed, status_log>>
                ELSE /\ chunks_failed' = Append(chunks_failed, <<m[1], m[3]>>)
                     /\ status_log' = Emit(status_log, <<"Chunk failed">>)
                     /\ UNCHANGED chunks_completed
          /\ \/ progress' = ProgressEvent(download_tracker)
             \/ UNCHANGED progress
       \/ /\ chunk_queue = <<>>
          /\ progress' = ProgressEvent(download_tracker)
          /\ UNCHANGED <<chunk_queue, arrival, chunks_completed, chunks_failed,
                         status_log>>
    /\ pc' = "loop"
    /\ UNCHANGED <<inputs, manager, locking, control_status,
                   num_connections, is_paused, is_cancelled,
                   chunk_downloaders, download_tracker, part_files, dest,
                   completed_count, merge_src, cancel_at>>

\* FinishOrder with the status ahead of the progress event (C21 depends on
\* the order)
FinishOrder_StatusFirst == <<"final_status", "final_progress", "final_completed">>

\* run, lines 260-262: the three emits after _merge_chunks, in their order
FinishOrder == <<"final_progress", "final_status", "final_completed">>

\* where run is between _merge_chunks and its end
FinishSteps == {FinishOrder[k] : k \in DOMAIN FinishOrder}

\* where run is after the emit at step: at the next emit, or at its end
AfterEmit(step) ==
    LET k == CHOOSE j \in DOMAIN FinishOrder : FinishOrder[j] = step
    IN IF k = Len(FinishOrder) THEN "done" ELSE FinishOrder[k + 1]

\* run, line 252: _merge_chunks. An OSError of open() or of a read or write
\* ends the thread: run catches only requests.exceptions.RequestException
Merge ==
    /\ pc = "merge"
    /\ merge_src' = part_files
    /\ \/ /\ pc' = "dead"
          /\ UNCHANGED <<dest, part_files, progress, status_log, completed_count>>
       \/ \E stop \in 0 .. num_connections - 1 :
            LET r == MergeChunks(part_files, num_connections, stop) IN
            /\ dest' = [exists |-> TRUE, open |-> FALSE, data |-> r.out]
            /\ part_files' = r.files
            /\ pc' = "dead"
            /\ UNCHANGED <<progress, status_log, completed_count>>
       \/ LET r == MergeChunks(part_files, num_connections, num_connections) IN
            /\ dest' = [exists |-> TRUE, open |-> FALSE, data |-> r.out]
            /\ part_files' = r.files
            /\ pc' = FinishOrder[1]
            /\ UNCHANGED <<progress, status_log, completed_count>>
    /\ UNCHANGED <<inputs, manager, locking, control_status,
                   num_connections, is_paused, is_cancelled,
                   chunk_downloaders, chunk_queue, chunks_completed,
                   chunks_failed, download_tracker, arrival, cancel_at>>

\* run, lines 254-262: after the merge, the 100 percent progress event, the
\* "Completed" status and the completed signal, one emit a step
Finish ==
    /\ pc \in FinishSteps
    /\ progress' =
          IF pc = "final_progress"
          THEN [sent |-> TRUE, percent |-> 100, bytes |-> content_length]
          ELSE progress
    /\ status_log' =
          IF pc = "final_status" THEN Emit(status_log, <<"Completed">>)
          ELSE status_log
    /\ completed_count' =
          IF pc = "final_completed" THEN EmitCompleted(completed_count)
          ELSE completed_count
    /\ pc' = AfterEmit(pc)
    /\ UNCHANGED <<inputs, manager, locking, control_status,
                   num_connections, is_paused, is_cancelled, chunk_downloaders, chunk_queue,
                   chunks_completed, chunks_failed, download_tracker,
                   part_files, dest, arrival, merge_src, cancel_at>>

\* ------------------------------------------------------ the control surface
\* DownloadThread.pause: the flag, and the "Paused" status whatever the state
\* of the transfer (kept in control_status, not in status_log)
Pause ==
    /\ is_paused' = TRUE
    /\ control_status' = "Paused"
    /\ UNCHANGED <<inputs, manager, locking,
                   pc, num_connections, is_cancelled, chunk_downloaders,
                   chunk_queue, chunks_completed, chunks_failed,
                   download_tracker, part_files, dest, status_log, progress,
                   completed_count, arrival, merge_src, cancel_at>>

\* DownloadThread.resume: the flag, and the "Downloading..." status whatever
\* the state of the transfer
Resume ==
    /\ is_paused' = FALSE
    /\ control_status' = "Downloading..."
    /\ UNCHANGED <<inputs, manager, locking,
                   pc, num_connections, is_cancelled, chunk_downloaders,
                   chunk_queue, chunks_completed, chunks_failed,
                   download_tracker, part_files, dest, status_log, progress,
                   completed_count, arrival, merge_src, cancel_at>>

\* the outcomes run still waits for
Left == num_connections - chunks_completed - Len(chunks_failed)

\* what cancel_at keeps of the moment of the first cancel(): "early" before
\* the workers are started, "ended" once run has left its monitoring loop
\* for good, and inside the loop "in_time" when run will come to the top of
\* the loop again with an outcome still missing (it is there and one is
\* missing, or it is in chunk_queue.get and two are missing), else "late"
CancelMoment ==
    IF pc \in {"probe", "plan", "spawn"} THEN "early"
    ELSE IF pc \in {"merge", "done", "dead"} \cup FinishSteps
         THEN "ended"
    ELSE IF (pc = "loop" /\ Left >= 1) \/ (pc = "get" /\ Left >= 2)
         THEN "in_time" ELSE "late"

\* DownloadThread.cancel
Cancel ==
    /\ is_cancelled' = TRUE
    /\ cancel_at' = IF is_cancelled THEN cancel_at ELSE CancelMoment
    /\ UNCHANGED <<inputs, manager, locking, control_status,
                   pc, num_connections, is_paused, chunk_downloaders,
                   chunk_queue, chunks_completed, chunks_failed,
                   download_tracker, part_files, dest, status_log, progress,
                   completed_count, arrival, merge_src>>

\* ------------------------------------------------------- the range workers
ChunkIds == DOMAIN chunk_downloaders

\* the statuses a server answers a range request with
Statuses == {206, 200, 404}

\* the length of the body: the range for 206, the whole file for 200
BodyLength(w, status) ==
    IF status = 206 THEN w.end_byte - w.start_byte + 1 ELSE content_length

\* piece k (1 .. MaxPieces) of a body: its offset and its length
PieceOff(body, k) == (k - 1) * (body \div MaxPieces)
PieceLen(body, k) ==
    IF k = MaxPieces THEN body - PieceOff(body, k) ELSE body \div MaxPieces

\* chunk_queue.put
Put(q, chunk_id, success, message) == Append(q, <<chunk_id, success, message>>)

\* leaving "with open(...) as f"
Closed(file) == [file EXCEPT !.open = FALSE]

\* ChunkDownloader.run, line 106-107 and the returns: the worker ends with
\* one message, its part file closed
WorkerEnds(i, success, message) ==
    /\ chunk_queue' = Put(chunk_queue, i, success, message)
    /\ part_files' = [part_files EXCEPT ![i] = Closed(@)]

\* ChunkDownloader.run, lines 61-74: the request, the status check, the part
\* file opened for writing
WorkerGet(i) ==
    /\ chunk_downloaders[i].at = "get"
    /\ \/ /\ WorkerEnds(i, FALSE, "exception")
          /\ chunk_downloaders' = [chunk_downloaders EXCEPT ![i].at = "done"]
       \/ \E st \in Statuses :
            IF st \notin {206, 200}
            THEN /\ WorkerEnds(i, FALSE, "status")
                 /\ chunk_downloaders' =
                      [chunk_downloaders EXCEPT ![i].at = "done", ![i].rejected = TRUE]
            ELSE /\ chunk_downloaders' =
                      [chunk_downloaders EXCEPT
                          ![i].at = "stream",
                          ![i].body = BodyLength(chunk_downloaders[i], st)]
                 /\ part_files' = [part_files EXCEPT
                        ![i] = [exists |-> TRUE, open |-> TRUE, data |-> <<>>]]
                 /\ UNCHANGED chunk_queue
    /\ UNCHANGED <<inputs, manager, locking, control_status,
                   pc, num_connections, is_paused, is_cancelled,
                   chunks_completed, chunks_failed, download_tracker, dest,
                   status_log, progress, completed_count, arrival, merge_src,
                   cancel_at>>

\* f.write(data): the bytes go to the file while its name is still on disk
Written(file, block) ==
    IF file.exists THEN [file EXCEPT !.data = Append(@, block)] ELSE file

\* speed = bytes_since_last / time_diff, for a report made as soon as it is
\* due (time_diff = 0.5 s)
Speed(bytes_since_last) == bytes_since_last * 2

\* ChunkDownloader.run, lines 87-100: the piece written and counted, and
\* reported to the tracker when 0.5 s have passed since the last report
WritePiece(i, report) ==
    LET w == chunk_downloaders[i]
        k == w.pieces + 1
        len == PieceLen(w.body, k)
        since == w.bytes_since_last + len
    IN /\ part_files' = [part_files EXCEPT ![i] =
              Written(@, [chunk |-> i, off |-> PieceOff(w.body, k), len |-> len])]
       /\ chunk_downloaders' = [chunk_downloaders EXCEPT
              ![i].at = "stream", ![i].pieces = k,
              ![i].downloaded = @ + len,
              ![i].bytes_since_last = IF report THEN 0 ELSE since]
       /\ download_tracker' =
              IF report
              THEN UpdateChunkProgress(download_tracker, i, since,
                                       Speed(since), None)
              ELSE download_tracker
       /\ UNCHANGED chunk_queue

\* the ways a piece is written: time_diff below 0.5 s, or a report
WriteChoice(i) == \E report \in BOOLEAN : WritePiece(i, report)

\* WorkerCancelled returning without a message (C11 depends on the put)
WorkerCancelled_Silent(i) ==
    /\ part_files' = [part_files EXCEPT ![i] = Closed(@)]
    /\ chunk_downloaders' = [chunk_downloaders EXCEPT ![i].at = "done"]
    /\ UNCHANGED <<chunk_queue, download_tracker>>

\* ChunkDownloader.run, lines 77-85: the worker saw its cancel flag
WorkerCancelled(i) ==
    /\ WorkerEnds(i, FALSE, "Cancelled")
    /\ chunk_downloaders' = [chunk_downloaders EXCEPT ![i].at = "done"]
    /\ UNCHANGED download_tracker

\* ChunkDownloader.run, lines 76-104: one turn of the loop over the body, or
\* the end of the body with the final report and the success message
WorkerStream(i) ==
    LET w == chunk_downloaders[i] IN
    /\ w.at = "stream"
    /\ \/ /\ w.pieces = MaxPieces
          /\ download_tracker' = UpdateChunkProgress(download_tracker, i, 0, 0,
                                        w.end_byte - w.start_byte + 1)
          /\ WorkerEnds(i, TRUE, "Completed")
          /\ chunk_downloaders' = [chunk_downloaders EXCEPT ![i].at = "done"]
       \/ /\ w.pieces < MaxPieces
          /\ WorkerEnds(i, FALSE, "exception")
          /\ chunk_downloaders' = [chunk_downloaders EXCEPT ![i].at = "done"]
          /\ UNCHANGED download_tracker
       \/ /\ w.pieces < MaxPieces
          /\ IF w.is_cancelled THEN WorkerCancelled(i)
             ELSE IF w.is_paused
             THEN /\ chunk_downloaders' =
                        [chunk_downloaders EXCEPT ![i].at = "paused"]
                  /\ UNCHANGED <<chunk_queue, part_files, download_tracker>>
             ELSE WriteChoice(i)
    /\ UNCHANGED <<inputs, manager, locking, control_status,
                   pc, num_connections, is_paused, is_cancelled,
                   chunks_completed, chunks_failed, dest, status_log, progress,
                   completed_count, arrival, merge_src, cancel_at>>

\* WorkerPaused that does not wait for is_paused to clear (C27 depends on
\* the wait)
WorkerPaused_NoWait(i) ==
    LET w == chunk_downloaders[i] IN
    /\ w.at = "paused"
    /\ IF w.is_cancelled THEN WorkerCancelled(i) ELSE WriteChoice(i)
    /\ UNCHANGED <<inputs, manager, locking, control_status,
                   pc, num_connections, is_paused, is_cancelled,
                   chunks_completed, chunks_failed, dest, status_log, progress,
                   completed_count, arrival, merge_src, cancel_at>>

\* ChunkDownloader.run, lines 81-85: time.sleep(0.1) in the pause loop, then
\* the cancel flag, then the pause flag again
WorkerPaused(i) ==
    LET w == chunk_downloaders[i] IN
    /\ w.at = "paused"
    /\ w.is_cancelled \/ ~w.is_paused
    /\ IF w.is_cancelled THEN WorkerCancelled(i) ELSE WriteChoice(i)
    /\ UNCHANGED <<inputs, manager, locking, control_status,
                   pc, num_connections, is_paused, is_cancelled,
                   chunks_completed, chunks_failed, dest, status_log, progress,
                   completed_count, arrival, merge_src, cancel_at>>

\* ------------------------------------------------ the tracker under its lock
\* what the calls of the tracker leave alone
transferred == <<inputs, pc, num_connections, is_paused, is_cancelled,
                 chunk_downloaders, chunk_queue, chunks_completed,
                 chunks_failed, part_files, dest, status_log, control_status,
                 completed_count, arrival, merge_src, cancel_at>>

\* the threads that take the tracker's lock
RunThread == <<"run">>
WorkerThread(i) == <<"worker", i>>

\* CanAcquire for a section entered without the lock (C23 depends on it)
CanAcquire_Always == TRUE

\* "with self.lock", "with download_tracker.lock": entered when the lock is
\* free
CanAcquire == lock = <<>>

\* a worker outside update_chunk_progress, made: the incremental calls it made
NewCall == [at |-> "out", made |-> 0, final |-> FALSE]

CallOf(i) == IF i \in DOMAIN calls THEN calls[i] ELSE NewCall

\* bytes_since_last of worker i's next incremental call: a piece of its range
ReportBytes(i) ==
    PieceLen(BodyLength(chunk_downloaders[i], 206), CallOf(i).made + 1)

\* ChunkDownloader.run, lines 96-100 and 103: the worker enters
\* update_chunk_progress, for an incremental report or for its final one
CallUpdate(i) ==
    /\ pc = "loop"
    /\ CallOf(i).at = "out"
    /\ CanAcquire
    /\ \E final \in BOOLEAN :
          /\ final \/ CallOf(i).made < MaxPieces
          /\ calls' = (i :> [CallOf(i) EXCEPT !.at = "progress", !.final = final])
                         @@ calls
    /\ lock' = WorkerThread(i)
    /\ UNCHANGED <<transferred, manager, download_tracker, progress, reader>>

\* DownloadTracker.update_chunk_progress, lines 120-129, a statement a step:
\* chunks_progress[chunk_id], chunks_speeds[chunk_id], total_downloaded,
\* current_speed, and the lock released on leaving the with block
UpdateStep(i) ==
    LET c == CallOf(i)
        w == chunk_downloaders[i]
        t == download_tracker
    IN /\ c.at \in {"progress", "speed", "total", "current", "release"}
       /\ download_tracker' =
            CASE c.at = "progress" ->
                   [t EXCEPT !.chunks_progress[i] =
                       IF c.final THEN w.end_byte - w.start_byte + 1
                       ELSE @ + ReportBytes(i)]
              [] c.at = "speed" ->
                   [t EXCEPT !.chunks_speeds[i] = Speed(ReportBytes(i))]
              [] c.at = "total" ->
                   [t EXCEPT !.total_downloaded = Sum(t.chunks_progress)]
              [] c.at = "current" ->
                   [t EXCEPT !.current_speed = Sum(t.chunks_speeds)]
              [] OTHER -> t
       /\ calls' = [calls EXCEPT ![i] =
            CASE c.at = "progress" ->
                   [c EXCEPT !.at = IF c.final THEN "total" ELSE "speed"]
              [] c.at = "speed" -> [c EXCEPT !.at = "total"]
              [] c.at = "total" -> [c EXCEPT !.at = "current"]
              [] c.at = "current" -> [c EXCEPT !.at = "release"]
              [] OTHER ->
                   [c EXCEPT !.at = IF c.final THEN "ended" ELSE "out",
                             !.made = IF c.final THEN @ ELSE @ + 1]]
       /\ lock' = IF c.at = "release" THEN <<>> ELSE lock
       /\ UNCHANGED <<transferred, manager, progress, reader>>

\* run, lines 235-239: inside "with download_tracker.lock" run reads
\* total_downloaded, then current_speed, and emits the progress event
ReadStep ==
    /\ pc = "loop"
    /\ reader.at = "out" => CanAcquire
    /\ lock' = CASE reader.at = "out" -> RunThread
                  [] reader.at = "release" -> <<>>
                  [] OTHER -> lock
    /\ reader' =
         CASE reader.at = "out" -> [reader EXCEPT !.at = "total"]
           [] reader.at = "total" ->
                [reader EXCEPT !.at = "speed",
                               !.total = download_tracker.total_downloaded]
           [] reader.at = "speed" ->
                [reader EXCEPT !.at = "release",
                               !.speed = download_tracker.current_speed]
           [] OTHER -> [reader EXCEPT !.at = "out"]
    /\ progress' =
         IF reader.at = "release"
         THEN [sent |-> TRUE, percent |-> Percent(reader.total, content_length),
               bytes |-> reader.total]
         ELSE progress
    /\ UNCHANGED <<transferred, manager, download_tracker, calls>>

\* --------------------------------------------------------- specifications
Next ==
    \/ Probe \/ Plan \/ Spawn \/ LoopCheck \/ LoopGet \/ Merge \/ Finish
    \/ Pause \/ Resume \/ Cancel
    \/ \E i \in ChunkIds : WorkerGet(i) \/ WorkerStream(i) \/ WorkerPaused(i)

Spec == Init /\ [][Next]_vars

\* the chunk ids of the transfers
AllChunkIds == {n - 1 : n \in TransferConns}

\* the threads are scheduled: run keeps turning in its monitoring loop
\* (chunk_queue.get times out after 0.5 s) and a worker that can take a step
\* of its loop takes it (time.sleep(0.1) in the pause loop returns)
Fairness ==
    /\ WF_vars(LoopCheck)
    /\ WF_vars(LoopGet)
    /\ \A i \in AllChunkIds :
          /\ WF_vars(i \in ChunkIds /\ WorkerStream(i))
          /\ WF_vars(i \in ChunkIds /\ WorkerPaused(i))

SpecFair == Init /\ [][Next]_vars /\ Fairness

\* the segment plans alone: the coordinator up to the start of its workers
NextPlan == Probe \/ Plan \/ Spawn

SpecPlan == InitPlan /\ [][NextPlan]_vars

\* the tracker's calls statement by statement: two workers started for a
\* size of two chunks, and run in its monitoring loop
InitTracker == InitWith({2}, {2 * MIN_CHUNK + 1}, {NoFile})

NextTracker ==
    \/ Probe \/ Plan \/ Spawn \/ ReadStep
    \/ \E i \in ChunkIds : CallUpdate(i) \/ UpdateStep(i)

SpecTracker == InitTracker /\ [][NextTracker]_vars

\* --------------------------------------------- several downloads at once
\* the variables of the transfer followed step by step
transfer == <<inputs, locking, pc, num_connections, is_paused, is_cancelled,
              chunk_downloaders, chunk_queue, chunks_completed, chunks_failed,
              download_tracker, part_files, dest, status_log, control_status,
              progress, completed_count, arrival, merge_src, cancel_at>>

PartOf(item) == PartPath(TempPath(item.url, item.save_path), 0)

\* DownloadManager.add_download: any valid URL and directory, also ones
\* already added; the item gets the next number and its thread is started
AddDownload ==
    /\ download_counter < MaxDownloads
    /\ \E url \in Urls, save_path \in Dirs :
          download_items' =
              download_items @@ (download_counter :> NewDownload(url, save_path))
    /\ download_counter' = download_counter + 1
    /\ UNCHANGED <<transfer, disk>>

\* run, lines 144-207: the probe fails, gives no size or finds the file
\* already there with the probed size, and run returns; or the workers are
\* started (a file of another URL at full_path may have another size)
RunStart(d) ==
    LET item == download_items[d]
        there == disk[FullPath(item.url, item.save_path)].exists
    IN /\ item.pc = "run"
       /\ \/ download_items' = [download_items EXCEPT ![d].pc = "done"]
          \/ /\ ~there \/ \E e \in DOMAIN download_items :
                            download_items[e].url # item.url
             /\ download_items' = [download_items EXCEPT
                    ![d].pc = "loop", ![d].worker = "get"]
       /\ UNCHANGED <<transfer, download_counter, disk>>

\* ChunkDownloader.run, lines 61-72: the request fails or is rejected, or the
\* part file is opened with mode 'wb'
WorkerOpen(d) ==
    LET item == download_items[d] IN
    /\ item.worker = "get"
    /\ \/ /\ download_items' = [download_items EXCEPT ![d].worker = "done"]
          /\ UNCHANGED disk
       \/ /\ download_items' = [download_items EXCEPT ![d].worker = "stream"]
          /\ disk' = [disk EXCEPT ![PartOf(item)] =
                 [exists |-> TRUE, writers |-> @.writers \cup {d}]]
    /\ UNCHANGED <<transfer, download_counter>>

\* ChunkDownloader.run, lines 76-107: the worker leaves "with open" (end of
\* the body, cancel flag seen, or exception) and puts its message
WorkerClose(d) ==
    LET item == download_items[d] IN
    /\ item.worker = "stream"
    /\ download_items' = [download_items EXCEPT ![d].worker = "done"]
    /\ disk' = [disk EXCEPT ![PartOf(item)].writers = @ \ {d}]
    /\ UNCHANGED <<transfer, download_counter>>

\* run, lines 210-215: the cancel flag seen with an outcome missing, and
\* _cleanup_temp_files
RunCancelled(d) ==
    LET item == download_items[d] IN
    /\ item.pc = "loop"
    /\ item.is_cancelled
    /\ item.worker # "done"
    /\ download_items' = [download_items EXCEPT ![d].pc = "done"]
    /\ disk' = [disk EXCEPT ![PartOf(item)].exists = FALSE]
    /\ UNCHANGED <<transfer, download_counter>>

\* run, lines 243-262: every outcome taken; _cleanup_temp_files after a
\* failure, or _merge_chunks, which writes full_path and removes the parts
RunFinish(d) ==
    LET item == download_items[d] IN
    /\ item.pc = "loop"
    /\ item.worker = "done"
    /\ download_items' = [download_items EXCEPT ![d].pc = "done"]
    /\ \E merged \in BOOLEAN :
          disk' = [disk EXCEPT
              ![PartOf(item)].exists = FALSE,
              ![FullPath(item.url, item.save_path)].exists = @ \/ merged]
    /\ UNCHANGED <<transfer, download_counter>>

\* DownloadItem.cancel_download
CancelDownload(d) ==
    /\ download_items' = [download_items EXCEPT ![d].is_cancelled = TRUE]
    /\ UNCHANGED <<transfer, download_counter, disk>>

NextManager ==
    \/ AddDownload
    \/ \E d \in DOMAIN download_items :
          \/ RunStart(d) \/ WorkerOpen(d) \/ WorkerClose(d)
          \/ RunCancelled(d) \/ RunFinish(d) \/ CancelDownload(d)

\* the downloads of one manager; the transfer followed step by step is left
\* unstarted
InitManager == InitWith({1}, {500000}, {NoFile})

SpecManager == InitManager /\ [][NextManager]_vars

\* ------------------------------------------------------------- properties
Returned == pc \in {"done", "dead"}
MergeRan == merge_src # <<>>
WorkersDone == \A i \in ChunkIds : chunk_downloaders[i].at = "done"
NoPartFiles == \A i \in DOMAIN part_files : ~part_files[i].exists
SomeRejected == \E i \in ChunkIds : chunk_downloaders[i].rejected
ChunkLength(w) == w.end_byte - w.start_byte + 1

RECURSIVE ConcatFrom(_, _, _)
ConcatFrom(files, i, n) ==
    IF i >= n THEN <<>> ELSE files[i].data \o ConcatFrom(files, i + 1, n)

\* C1: once the workers are started, for every total size > 0 and every
\* requested count >= 1, with or without range support, the chunks are
\* contiguous, non-empty and cover exactly [0, total size): chunk 0 starts at
\* 0, chunk i+1 starts at end(i)+1, the last chunk ends at total size - 1 and
\* the lengths sum to the total size.
C1_PlanCovers ==
    pc = "loop" =>
        LET n == num_connections
            cd == chunk_downloaders
        IN /\ n >= 1
           /\ DOMAIN cd = 0 .. n - 1
           /\ cd[0].start_byte = 0
           /\ \A i \in 0 .. n - 2 : cd[i + 1].start_byte = cd[i].end_byte + 1
           /\ \A i \in 0 .. n - 1 : cd[i].start_byte <= cd[i].end_byte
           /\ cd[n - 1].end_byte = content_length - 1
           /\ Sum([i \in 0 .. n - 1 |-> ChunkLength(cd[i])]) = content_length

\* a plan of several chunks whose last chunk takes a remainder
C1_Witness ==
    /\ pc = "loop"
    /\ num_connections >= 3
    /\ content_length % num_connections # 0

\* C2 as claimed: after the Cancelled status and the cleanup, once every
\* worker has ended, no part file of the transfer is on disk.
C2_NoPartFilesAfterCancel ==
    (pc = "done" /\ Outcome = "Cancelled" /\ WorkersDone) => NoPartFiles

\* C3 as claimed: when a worker was answered a status other than 200/206, the
\* transfer ends Failed, without a merge, and no part file is left when the
\* coordinator returns.
C3_Original ==
    (Returned /\ SomeRejected) =>
        (Outcome = "Failed" /\ ~MergeRan /\ NoPartFiles)

\* C3, amended: the same, unless the coordinator saw Cancel before it had
\* every outcome (the transfer then ends Cancelled).
C3_FailedUnlessCancelled ==
    (Returned /\ SomeRejected /\ Outcome # "Cancelled") =>
        (Outcome = "Failed" /\ ~MergeRan /\ NoPartFiles)

\* a transfer that failed on a rejected chunk while another chunk succeeded
C3_Witness ==
    /\ pc = "done" /\ Outcome = "Failed"
    /\ SomeRejected
    /\ chunks_completed >= 1

\* what C4 promises of a transfer: no merge, no Completed status, no
\* completion event, and at its end the Cancelled outcome with every worker
\* told to stop
EndsCancelled ==
    /\ pc \notin {"merge", "dead"}
    /\ ~MergeRan
    /\ completed_count = 0
    /\ \A k \in 1 .. Len(status_log) : status_log[k] # "Completed"
    /\ pc = "done" =>
        /\ Outcome = "Cancelled"
        /\ \A i \in ChunkIds : chunk_downloaders[i].is_cancelled

\* C4 as claimed: a cancel() at any point after the workers were started and
\* before the merge step begins makes the transfer end Cancelled.
C4_Original == cancel_at \in {"in_time", "late"} => EndsCancelled

\* C4, amended: a cancel() after the workers were started makes the transfer
\* end Cancelled when the coordinator comes to the top of its monitoring loop
\* once more with an outcome still missing: it is called while the
\* coordinator is at the top of the loop and an outcome is missing, or while
\* it waits on the queue and two are missing.
C4_CancelInTime == cancel_at = "in_time" => EndsCancelled

\* a transfer cancelled in time after a worker had written to its part file
C4_Witness ==
    /\ cancel_at = "in_time"
    /\ pc = "done" /\ Outcome = "Cancelled"
    /\ \E i \in ChunkIds : chunk_downloaders[i].pieces >= 1

\* C5: after a merge that ran to its end, the destination file holds the
\* part files as the merge found them, one after the other in ascending
\* chunk order, in whatever order the chunks were reported done.
C5_MergeAscending ==
    (pc = "done" /\ MergeRan) =>
        /\ dest.exists
        /\ dest.data = ConcatFrom(merge_src, 0, num_connections)

\* a completed merge of two chunks, the second reported done before the first
C5_Witness ==
    /\ pc = "done" /\ MergeRan
    /\ arrival = <<1, 0>>
    /\ \A i \in {0, 1} : merge_src[i].data # <<>>

\* C6 as claimed: every run of the coordinator ends with exactly one terminal
\* status.
C6_ExactlyOneOutcome == Returned => Len(Terminals) = 1

\* C7 as claimed: a disk error during the merge ends the transfer Failed, and
\* the part files are cleaned up.
C7_MergeErrorFails == pc = "dead" => (Outcome = "Failed" /\ NoPartFiles)

\* the effective count C8 speaks of, for a plan that starts from n
FloorCount == Max(1, content_length \div MIN_CHUNK)

\* C8 as claimed: whenever total size // requested count is below 1 MiB, the
\* effective count is max(1, total size // 1 MiB) and differs from the
\* requested count.
C8_Original ==
    (pc \in {"spawn", "loop"} /\ content_length \div requested < MIN_CHUNK) =>
        (num_connections = FloorCount /\ num_connections # requested)

\* the count the plan starts from: the requested one, capped at 16, and 1
\* without range support
StartCount == IF accept_ranges THEN Min(requested, MAX_CONNECTIONS) ELSE 1

\* C8, amended: whenever total size // n is below 1 MiB for the count n the
\* plan starts from (the requested count capped at 16, 1 without range
\* support), the effective count is max(1, total size // 1 MiB); it differs
\* from n unless n = 1.
C8_FloorCount ==
    (pc \in {"spawn", "loop"} /\ content_length \div StartCount < MIN_CHUNK) =>
        /\ num_connections = FloorCount
        /\ StartCount >= 2 => num_connections # StartCount

\* a plan reduced from 8 requested connections to 3
C8_Witness ==
    /\ pc = "loop"
    /\ requested = 8 /\ accept_ranges
    /\ content_length \div 8 < MIN_CHUNK
    /\ num_connections = 3

\* C9: without range support there is one worker, for [0, total size - 1],
\* whatever the requested count and the total size.
C9_SingleWithoutRanges ==
    (pc = "loop" /\ ~accept_ranges) =>
        /\ num_connections = 1
        /\ DOMAIN chunk_downloaders = {0}
        /\ chunk_downloaders[0].start_byte = 0
        /\ chunk_downloaders[0].end_byte = content_length - 1

\* no range support, several connections requested, a size that would allow them
C9_Witness ==
    /\ pc = "loop" /\ ~accept_ranges
    /\ requested >= 4
    /\ content_length >= 4 * MIN_CHUNK

\* C10: a transfer whose outcome is Failed or Cancelled has left the
\* destination as it was before: not created, not truncated, not written.
C10_DestUntouched == Outcome \in {"Failed", "Cancelled"} => dest = dest0

\* a failed or cancelled transfer, with a file at the destination, after a
\* worker had downloaded part of its chunk
C10_Witness ==
    /\ pc = "done" /\ Outcome \in {"Failed", "Cancelled"}
    /\ dest0.exists
    /\ \E i \in ChunkIds : chunk_downloaders[i].pieces >= 1

\* the outcome messages worker i has put on the queue so far: those still
\* waiting and those the coordinator has taken
Posted(i) ==
    Cardinality({k \in DOMAIN chunk_queue : chunk_queue[k][1] = i})
      + Cardinality({k \in DOMAIN arrival : arrival[k] = i})

WholeBody(i) ==
    chunk_downloaders[i].body > ChunkLength(chunk_downloaders[i])

\* C12: the bytes transferred carried by successive progress events of one
\* transfer never decrease, whatever the interleaving of the incremental and
\* the final absolute reports and whichever of 200 and 206 a worker was
\* answered.
C12_BytesNonDecreasing ==
    [][(progress.sent /\ progress'.sent) => progress'.bytes >= progress.bytes]_vars

\* C13: every progress event carries a percent within 0 .. 100, whatever the
\* interleaving of the reports and whichever of 200 and 206 a worker was
\* answered.
C13_PercentInRange == progress.sent => progress.percent \in 0 .. 100

\* worker i has put its success message, taken by the coordinator or not
Succeeded(i) ==
    \/ \E k \in DOMAIN chunk_queue :
          chunk_queue[k][1] = i /\ chunk_queue[k][2]
    \/ /\ \E k \in DOMAIN arrival : arrival[k] = i
       /\ \A k \in DOMAIN chunks_failed : chunks_failed[k][1] # i

AllSucceeded == ChunkIds # {} /\ \A i \in ChunkIds : Succeeded(i)

\* C14: once every segment has posted its success message, the tracker's
\* total_downloaded is the probed size S exactly, whatever incremental
\* reports were or were not made before the final absolute reports.
C14_TotalIsSize ==
    AllSucceeded => download_tracker.total_downloaded = content_length

\* two workers succeeded, one having counted a whole-file body, one with
\* bytes it had not reported when its body ended
C14_Witness ==
    /\ AllSucceeded
    /\ num_connections = 2
    /\ \E i \in ChunkIds : WholeBody(i)
    /\ \E i \in ChunkIds : chunk_downloaders[i].bytes_since_last > 0

\* C15: pause(), resume() and cancel() called after the transfer reached a
\* terminal outcome are no-ops: they emit no status, so the status the
\* collaborators received last stays the one of the outcome.
C15_NoOpAfterOutcome ==
    [][pc = "done" => control_status' = control_status]_vars

\* C16: at any time each part-file path is open for writing by at most one
\* live range worker, also when several downloads of one manager run at the
\* same time and the same URL and directory were added more than once.
C16_OneWriter == \A p \in DOMAIN disk : Cardinality(disk[p].writers) <= 1

\* C17: the completed signal is emitted exactly once for a transfer that
\* completes successfully, and never for one that ends failed, cancelled or
\* with a probe error (nor before the "Completed" status); run emits it
\* right after that status.
C17_CompletedOnce ==
    /\ completed_count = IF Outcome = "Completed" /\ pc # "final_completed"
                         THEN 1 ELSE 0
    /\ pc = "final_completed" => Outcome = "Completed"

\* a transfer completed through the merge
C17_Witness == Outcome = "Completed" /\ MergeRan /\ num_connections = 2

CancelledEmitted == \E k \in DOMAIN status_log : status_log[k] = "Cancelled"

\* C18: after the coordinator has emitted the Cancelled status, no further
\* progress event is emitted: the last event stays the last.
C18_NoProgressAfterCancelled == [][CancelledEmitted => progress' = progress]_vars

\* Cancelled emitted after a progress event, with bytes counted by the
\* tracker since that event
C18_Witness ==
    /\ CancelledEmitted
    /\ progress.sent
    /\ download_tracker.total_downloaded > progress.bytes

\* requests.head raised: the second status is the one of run's handler
HeadRaised ==
    /\ Len(status_log) >= 2
    /\ status_log[2] \in {"Cancelled", "Error: request failed"}

\* the probe was answered and run went on from it
ProbeAnswered == pc # "probe" /\ ~HeadRaised

\* C19: when a file is at the destination path and its size is the probed
\* size S, run emits one progress event (percent 100) and the completed
\* signal, starts no worker, creates no part file and leaves the destination
\* file as it was.
C19_AlreadyDownloaded ==
    /\ pc = "probe" => ~progress.sent /\ completed_count = 0
    /\ (ProbeAnswered /\ dest0.exists /\ GetSize(dest0) = content_length) =>
          /\ pc = "done"
          /\ status_log = <<"Checking file info...", "File already downloaded">>
          /\ progress = [sent |-> TRUE, percent |-> 100, bytes |-> content_length]
          /\ completed_count = 1
          /\ chunk_downloaders = <<>>
          /\ NoPartFiles
          /\ dest = dest0

\* the short cut taken, and cancel() called after it
C19_Witness ==
    /\ ProbeAnswered /\ dest0.exists /\ GetSize(dest0) = content_length
    /\ progress.sent
    /\ is_cancelled

\* C20: when the probe's response has no content-length or one of zero, the
\* transfer never starts: run emits an error status and returns without
\* starting a worker, creating a part file or emitting a progress event or
\* the completed signal.
C20_NoSizeNoStart ==
    (ProbeAnswered /\ content_length = 0) =>
        /\ pc = "done"
        /\ status_log = <<"Checking file info...",
                          "Error: Could not determine file size">>
        /\ chunk_downloaders = <<>>
        /\ NoPartFiles
        /\ ~progress.sent
        /\ completed_count = 0
        /\ dest = dest0

\* the size error, with a file of another size at the destination
C20_Witness ==
    /\ ProbeAnswered /\ content_length = 0
    /\ Outcome = "Failed"
    /\ dest0.exists

CompletedEmitted == \E k \in DOMAIN status_log : status_log[k] = "Completed"

\* the progress event run emits after the merge
FinalEvent == [sent |-> TRUE, percent |-> 100, bytes |-> content_length]

\* C21: in a transfer completed through the merge, the last progress event
\* has percent 100 and is emitted after the merge has finished and before
\* the Completed status and the completed signal; no progress event follows
\* the completed signal.
C21_FinalProgress ==
    /\ pc = "final_progress" =>
          /\ MergeRan /\ dest.exists
          /\ ~CompletedEmitted
          /\ completed_count = 0
    /\ (MergeRan /\ (CompletedEmitted \/ completed_count > 0)) =>
          progress = FinalEvent

\* the Completed status emitted after the merge of two chunks, the completed
\* signal not yet
C21_Witness ==
    /\ pc = "final_completed"
    /\ CompletedEmitted
    /\ progress = FinalEvent
    /\ num_connections = 2

\* C22: the merge starts only after every worker started has put its outcome
\* and closed its part file: no worker writes to a part file while or after
\* the merge reads it.
C22_MergeAfterWorkers ==
    (pc = "merge" \/ MergeRan) =>
        /\ WorkersDone
        /\ OpenParts = {}
        /\ \A i \in ChunkIds : Posted(i) = 1

\* run about to merge two chunks, one of a worker that was paused on its way
C22_Witness ==
    /\ pc = "merge"
    /\ num_connections = 2
    /\ \E i \in ChunkIds : chunk_downloaders[i].is_paused

\* C23: what run reads for a progress event is consistent: total_downloaded
\* is the sum of the chunks' byte counts and current_speed the sum of the
\* chunks' speeds as of one instant, whatever calls of update_chunk_progress
\* the workers are making; outside the lock the tracker's sums are up to date.
C23_ConsistentSnapshot ==
    /\ reader.at = "release" =>
          /\ reader.total = Sum(download_tracker.chunks_progress)
          /\ reader.speed = Sum(download_tracker.chunks_speeds)
    /\ lock = <<>> =>
          /\ download_tracker.total_downloaded
                = Sum(download_tracker.chunks_progress)
          /\ download_tracker.current_speed
                = Sum(download_tracker.chunks_speeds)

\* run has read both sums while one worker has made its final report and
\* the other waits at the lock between two incremental reports
C23_Witness ==
    /\ reader.at = "release"
    /\ reader.total > 0 /\ reader.speed > 0
    /\ \E i \in ChunkIds : CallOf(i).at = "ended"
    /\ \E i \in ChunkIds : CallOf(i).at = "out" /\ CallOf(i).made = 1

\* worker i is held in its pause loop: its own is_paused is set
Blocked(i) ==
    /\ i \in ChunkIds
    /\ chunk_downloaders[i].at = "paused"
    /\ chunk_downloaders[i].is_paused

\* worker i has left its run
Ended(i) == i \in ChunkIds /\ chunk_downloaders[i].at = "done"

\* C24: when the transfer is paused and cancel() is then called, every
\* worker waiting in its pause loop eventually sees the cancellation and
\* ends, and run eventually emits Cancelled.
C24_PausedCancelEnds ==
    \A i \in AllChunkIds :
        (Blocked(i) /\ is_paused /\ is_cancelled)
            ~> (Ended(i) /\ CancelledEmitted)

\* cancel() called while both workers wait in their pause loops
C24_Witness ==
    /\ is_paused /\ is_cancelled
    /\ num_connections = 2
    /\ \A i \in ChunkIds : Blocked(i) /\ ~chunk_downloaders[i].is_cancelled

\* C25: in every plan of n chunks for a total size S, chunks 0 .. n-2 have
\* length S // n and chunk n-1 has length S - (n-1) * (S // n); 10,485,760
\* bytes with 4 connections requested and range support give four chunks of
\* 2,621,440 bytes.
C25_ChunkLengths ==
    pc = "loop" =>
        LET n == num_connections
            S == content_length
            cd == chunk_downloaders
        IN /\ \A i \in 0 .. n - 2 : ChunkLength(cd[i]) = S \div n
           /\ ChunkLength(cd[n - 1]) = S - (n - 1) * (S \div n)
           /\ (S = 10485760 /\ requested = 4 /\ accept_ranges) =>
                 /\ n = 4
                 /\ \A i \in 0 .. 3 : ChunkLength(cd[i]) = 2621440

\* the plan of the example: four workers started for 10 MiB
C25_Witness ==
    /\ pc = "loop"
    /\ content_length = 10485760 /\ requested = 4 /\ accept_ranges
    /\ DOMAIN chunk_downloaders = 0 .. 3

\* C26: in every plan of more than one chunk, every chunk, the last one
\* included, is at least 1 MiB long; a chunk shorter than 1 MiB is the only
\* chunk of its plan.
C26_ChunkFloor ==
    pc = "loop" =>
        \A i \in ChunkIds :
            ChunkLength(chunk_downloaders[i]) < MIN_CHUNK => num_connections = 1

\* a plan reduced to several chunks, for a size that is no multiple of 1 MiB
C26_Witness ==
    /\ pc = "loop"
    /\ num_connections >= 2
    /\ num_connections < StartCount
    /\ content_length % MIN_CHUNK # 0

\* C30: for every requested count N >= 1 and total size S > 0, the count
\* that the workers are started for, that the tracker is sized for and that
\* the cleanup of the part files uses (num_connections) is between 1 and
\* min(N, 16).
C30_CountInRange ==
    /\ 1 <= num_connections
    /\ num_connections <= Min(requested, 16)
    /\ pc \in {"spawn", "loop"} =>
          DOMAIN download_tracker.chunks_progress = 0 .. num_connections - 1
    /\ pc = "loop" => DOMAIN chunk_downloaders = 0 .. num_connections - 1

\* more than 16 connections requested for a size that allows them: 16 workers
C30_Witness ==
    /\ pc = "loop"
    /\ requested > 16
    /\ num_connections = 16
    /\ Cardinality(ChunkIds) = 16

\* worker i's pause flag is set
PauseFlag(i) == i \in ChunkIds /\ chunk_downloaders[i].is_paused

\* this step writes nothing to the part file of chunk i
NoWrite(i) ==
    /\ chunk_downloaders'[i].pieces = chunk_downloaders[i].pieces
    /\ chunk_downloaders'[i].downloaded = chunk_downloaders[i].downloaded
    /\ part_files'[i].exists => part_files'[i].data = part_files[i].data

\* this step reports nothing for chunk i to the tracker
NoReport(i) ==
    /\ download_tracker'.chunks_progress[i] = download_tracker.chunks_progress[i]
    /\ download_tracker'.chunks_speeds[i] = download_tracker.chunks_speeds[i]

\* the part file an unpaused worker has after as many pieces of the same body
Unpaused(i) ==
    [k \in 1 .. chunk_downloaders[i].pieces |->
        [chunk |-> i, off |-> PieceOff(chunk_downloaders[i].body, k),
         len |-> PieceLen(chunk_downloaders[i].body, k)]]

\* every piece once and in order, whatever pauses there were
WrittenOnce ==
    \A i \in ChunkIds :
        /\ part_files[i].exists => part_files[i].data = Unpaused(i)
        /\ chunk_downloaders[i].downloaded =
             IF chunk_downloaders[i].pieces = MaxPieces
             THEN chunk_downloaders[i].body
             ELSE PieceOff(chunk_downloaders[i].body,
                           chunk_downloaders[i].pieces + 1)

\* C27 as claimed: while a worker's pause flag is set it writes nothing to its
\* part file and reports no progress.
C27_Original ==
    [][\A i \in AllChunkIds : PauseFlag(i) => (NoWrite(i) /\ NoReport(i))]_vars

\* C27, amended: a worker that finds its pause flag set when it looks at it,
\* before each piece, writes nothing to its part file and reports nothing
\* until the flag is cleared; only the final report, which follows the last
\* piece of the body without a look at the flag, is made with the flag set.
\* Every piece is written once and in order, so the part file is the one an
\* unpaused worker produces.
C27_PauseKeepsBytes ==
    /\ [][\A i \in AllChunkIds :
            PauseFlag(i) =>
                /\ NoWrite(i)
                /\ chunk_downloaders[i].pieces < MaxPieces => NoReport(i)]_vars
    /\ []WrittenOnce

\* after pause() and resume(): a worker still in its pause loop, its flag
\* cleared again, about to write the piece it held, one piece in its file
C27_Witness ==
    /\ ~is_paused
    /\ control_status = "Downloading..."
    /\ \E i \in ChunkIds :
          /\ chunk_downloaders[i].at = "paused"
          /\ ~chunk_downloaders[i].is_paused
          /\ ~chunk_downloaders[i].is_cancelled
          /\ chunk_downloaders[i].pieces = 1
          /\ part_files[i].exists
          /\ Len(part_files[i].data) = 1

\* C28 as claimed: whenever a transfer ends Completed through the merge, the
\* destination file has the length of the probed total size S (every part
\* file merged held end - start + 1 bytes).
C28_DestLength ==
    (Outcome = "Completed" /\ MergeRan) =>
        (dest.exists /\ GetSize(dest) = content_length)

\* C29 as claimed: once a worker has made its final absolute report and
\* posted success, its chunk adds nothing to the tracker's current_speed,
\* and once every chunk has succeeded current_speed is 0.
C29_SpeedZeroAfterSuccess ==
    /\ \A i \in ChunkIds : Succeeded(i) => download_tracker.chunks_speeds[i] = 0
    /\ AllSucceeded => download_tracker.current_speed = 0

====
